---- MODULE Spec2Model ----
(***************************************************************************)
(* Signaling relay of P2P-Web-File-Share (src/src/server.js).              *)
(*                                                                         *)
(* The relay keeps two maps, peers (id -> socket) and partner (id ->       *)
(* counterpart or null).  Each WebSocket gets a fresh id on 'connection',  *)
(* its frames are handled by ws.on('message') and its teardown by          *)
(* ws.on('close').  Node runs every handler to completion, so each handler *)
(* is one atomic action.                                                   *)
(***************************************************************************)
EXTENDS Integers, Sequences, FiniteSets, TLC

\* ---------------------------------------------------------------- bounds
\* Number of connections accepted during a run (ids are 1..MaxConns).
MaxConns == 3
\* Largest number of seconds between two frames of one connection.
MaxElapsed == 1

\* Heartbeat sweeps over one connection without a pong in between.
MaxSweeps == 3
\* Frames and bus messages that arrive while the traffic is logged.
MaxSent == 3

\* ------------------------------------------------------ program constants
WS_MSG_BURST == 2
SDP_MAX == 200000
CAND_MAX == 50000
CLOSE_IDLE == 1000
CLOSE_RATE == 1008
HTTP_SWITCHING == 101
HTTP_OK == 200
HTTP_STATIC_MAX == 2
HTTP_CONFIG_MAX == 1
MaxHits == 4
HTTP_BAD_REQUEST == 400
HTTP_FORBIDDEN == 403
HTTP_NOT_FOUND == 404
HTTP_TOO_MANY == 429
\* what the peer of a socket destroyed by ws.terminate() sees as close code
TERMINATED == 1006
\* the "going away" close code
CLOSE_GOING_AWAY == 1001
\* env.MAX_IP_CONNS, configured to three connections per address
MAX_IP_CONNS == 3

\* ------------------------------------------------------------- JS values
Null == 0

\* no HTTP response yet
NoResponse == [url |-> "none", status |-> Null]
Undefined == -1
\* a `to` field that is missing or not a string
NotString == -2
\* a `payload` field that is missing or not an object
NoPayload == [type |-> "none", sdp |-> 0, candidate |-> 0]
\* a frame that JSON.parse rejects
BadJson == [json |-> FALSE, to |-> NotString, payload |-> NoPayload, type |-> "none"]

Codes == 1..MaxConns

Truthy(v) == v # Null /\ v # Undefined

\* `x || null`
OrNull(v) == IF Truthy(v) THEN v ELSE Null

\* `x || 0`
OrZero(v) == IF Truthy(v) THEN v ELSE 0

Min(a, b) == IF a < b THEN a ELSE b

VARIABLES
    nextId,         \* the next id uuidv4() mints
    peers,          \* keys of the peers map (the socket is named by its id)
    partner,        \* the partner map, a function on its key set
    ipConnCount,    \* the ipConnCount map, a function on its key set
    connIp,         \* the source address of each connection's upgrade request
    bucket,         \* ws._bucket.tokens of each connection
    signalTimeout,  \* the idle timer of each connection
    closeCode,      \* the code of the close the relay started, or Null
    isAlive,        \* ws.isAlive of each connection
    written,        \* what the last handler handed to ws.send, in order
    published,      \* what the last handler published on the bus, in order
    counted,        \* what the last handler added to ws_errors_total and ws_signals_total
    upgradeStatus,  \* the HTTP status the last handler answered an upgrade with, or Null
    welcomed,       \* ids that were sent their welcome
    closed,         \* ids whose 'close' handler ran
    passed,         \* pairs between which an offer or answer was accepted
    lastClose,      \* what the last 'close' handler found in the partner map
    sent,           \* history: the signals each connection sent, in order of arrival
    outbox,         \* history: what ws.send was handed for each connection, in order
    run,            \* history: frames of each connection since connect, all back-to-back
    signalled,      \* history: ids that sent a valid offer, answer or candidate
    unacked,        \* history: pings sent to each connection since its last pong
    sweeps,         \* history: heartbeat sweeps over each connection since its last pong
    lastFrame,      \* history: the sender and frame of the last 'message' handler
    phase,          \* "running", "stopping" after shutdown(), "exited" after process.exit
    staticHits,     \* requests staticLimiter counted in the current window
    configHits,     \* requests configLimiter counted in the current window
    httpStatus,     \* the url and status of the last HTTP response
    uuid,           \* history: the string uuidv4() returned for each code
    WS_MSG_RATE,    \* env.WS_MSG_RATE
    useRedis        \* !!env.REDIS_URL

vars == <<nextId, peers, partner, ipConnCount, connIp, upgradeStatus, bucket, signalTimeout, closeCode, written,
          published, counted, welcomed, closed, passed, lastClose, WS_MSG_RATE, useRedis,
          isAlive, sent, outbox, run, signalled, unacked, sweeps, lastFrame,
          phase, staticHits, configHits, httpStatus, uuid>>

\* ---------------------------------------------------------------- frames
Kinds == {"offer", "answer", "candidate", "bye", "busy"}

\* Payloads a client may send: the five kinds and an unknown one, session
\* descriptions and candidates at and one above their size limit.
Payloads ==
    { [type |-> k, sdp |-> s, candidate |-> 0] :
        k \in {"offer", "answer"}, s \in {SDP_MAX, SDP_MAX + 1} }
    \cup { [type |-> "candidate", sdp |-> 0, candidate |-> c] :
        c \in {CAND_MAX, CAND_MAX + 1} }
    \cup { [type |-> k, sdp |-> 0, candidate |-> 0] : k \in {"bye", "busy", "other"} }

Frames ==
    {BadJson}
    \cup { [json |-> TRUE, to |-> NotString, payload |-> [type |-> "bye", sdp |-> 0, candidate |-> 0], type |-> "none"] }
    \cup { [json |-> TRUE, to |-> t, payload |-> NoPayload, type |-> "none"] : t \in {1} }
    \cup { [json |-> TRUE, to |-> t, payload |-> [type |-> "bye", sdp |-> 0, candidate |-> 0], type |-> "list"] : t \in {1} }
    \cup { [json |-> TRUE, to |-> t, payload |-> p, type |-> "none"] : t \in Codes, p \in Payloads }

\* ------------------------------------------------------- outbound messages
\* a welcome that carries no code
WelcomeMsgNoCode(id) == [type |-> "welcome", id |-> Null, from |-> Null, payload |-> NoPayload]

WelcomeMsg(id) == [type |-> "welcome", id |-> id, from |-> Null, payload |-> NoPayload]
\* a list reply that names the registered codes
PeersMsgRegistry == [type |-> "peers", id |-> Null, from |-> Null, payload |-> NoPayload, peers |-> peers]

\* { type: 'peers', peers: [] }
PeersMsg == [type |-> "peers", id |-> Null, from |-> Null, payload |-> NoPayload, peers |-> {}]
SignalMsg(from, payload) == [type |-> "signal", id |-> Null, from |-> from, payload |-> payload]
BusyPayload == [type |-> "busy", sdp |-> 0, candidate |-> 0]

\* send(ws, msg): one entry of `written`.  src tells whether the payload was
\* made by the relay or taken from the client's frame.
Wr(to, msg, src) == [to |-> to, msg |-> msg, src |-> src]

\* ------------------------------------------------------------ the maps
MapGet(m, k) == IF k \in DOMAIN m THEN m[k] ELSE Undefined
MapSet(m, k, v) == [x \in DOMAIN m \cup {k} |-> IF x = k THEN v ELSE m[x]]
MapDelete(m, k) == [x \in DOMAIN m \ {k} |-> m[x]]


\* peers.set(id, ws)
PeersSet(ps, id) == ps \cup {id}

\* a teardown that leaves the socket in the registry
PeersDeleteNever(ps, id) == ps

\* peers.delete(id)
PeersDelete(ps, id) == ps \ {id}

\* ------------------------------------------------- the pairing decisions
KindRecognized(kind) == kind \in Kinds

SdpTooBig(payload) == Truthy(payload.sdp) /\ payload.sdp > SDP_MAX

CandidateTooBig(payload) == Truthy(payload.candidate) /\ payload.candidate > CAND_MAX

\* a busy test that refuses whenever either side has a counterpart
OfferBusyAnyCounterpart(pFrom, pTo, id, to) == Truthy(pFrom) \/ Truthy(pTo)

\* a busy test that looks at the caller's side only
OfferBusyCallerOnly(pFrom, pTo, id, to) == Truthy(pFrom) /\ pFrom # to

\* offer: either side is busy with someone else
OfferBusy(pFrom, pTo, id, to) ==
    (Truthy(pFrom) /\ pFrom # to) \/ (Truthy(pTo) /\ pTo # id)

\* answer: one side switched
AnswerConflict(pFrom, pTo, id, to) ==
    (Truthy(pFrom) /\ pFrom # to) \/ (Truthy(pTo) /\ pTo # id)

\* a gate that lets a candidate through when either side is Free
CandidateAllowedEitherFree(pFrom, pTo, id, to) ==
    pFrom = to \/ pTo = id \/ pFrom = Null \/ pTo = Null

\* candidate: belongs to the current pairing
CandidateAllowed(pFrom, pTo, id, to) ==
    pFrom = to \/ pTo = id \/ (pFrom = Null /\ pTo = Null)

\* offer: mark caller as dialing callee
OnOffer(m, id, to) == MapSet(m, id, to)

\* answer: lock both sides together
OnAnswer(m, id, to) == MapSet(MapSet(m, id, to), to, id)

\* a bye that dials the target when the sender was not pointing at it
OnByeToggle(m, id, to, pFrom, pTo) ==
    LET m1 == IF pFrom = to THEN MapSet(m, id, Null) ELSE MapSet(m, id, to)
    IN  IF pTo = id THEN MapSet(m1, to, Null) ELSE m1

\* bye: release both sides
OnBye(m, id, to, pFrom, pTo) ==
    LET m1 == IF pFrom = to THEN MapSet(m, id, Null) ELSE m
    IN  IF pTo = id THEN MapSet(m1, to, Null) ELSE m1

\* a teardown that forgets the peer and leaves its counterpart paired
OnCloseOwnEntryOnly(m, id) == MapDelete(m, id)

\* 'close': forget the peer and free a counterpart that points back at it
OnClose(m, id) ==
    LET p == OrNull(MapGet(m, id))
        m1 == MapDelete(m, id)
    IN  IF Truthy(p) /\ MapGet(m1, p) = id THEN MapSet(m1, p, Null) ELSE m1

\* a count that takes each direction of a pairing
CalcPairsOrdered(m) ==
    Cardinality({ a \in DOMAIN m : Truthy(m[a]) /\ MapGet(m, m[a]) = a })

\* calcPairs(): the unordered pairs {a, b} with partner[a] = b and partner[b] = a
CalcPairs(m) ==
    Cardinality({ {a, m[a]} : a \in { x \in DOMAIN m : Truthy(m[x]) /\ MapGet(m, m[x]) = x } })

\* the envelope written to the destination
Forward(id, to, payload) == Wr(to, SignalMsg(id, payload), "client")

\* the synthetic busy written to the caller
BusyReply(id, to) == Wr(id, SignalMsg(to, BusyPayload), "relay")

\* -------------------------------------------------------------- the relay
\* What a frame does, as a record of the handler's effects.
Effect(m, w, pub, cancel) ==
    [partner |-> m, written |-> w, published |-> pub, cancel |-> cancel,
     counted |-> [errors |-> 0, signals |-> "none"]]

\* a drop that counts as an error
NothingButError == [Effect(partner, <<>>, <<>>, FALSE) EXCEPT !.counted.errors = 1]

Nothing == Effect(partner, <<>>, <<>>, FALSE)

\* wsErrorsCounter.inc() and nothing else
Invalid == [Nothing EXCEPT !.counted.errors = 1]

NoCount == [errors |-> 0, signals |-> "none"]

\* ws.on('message') after the rate-limit check and JSON.parse
Relay(id, msg) ==
    LET to == msg.to
        payload == msg.payload
    IN
    IF to = NotString \/ payload = NoPayload THEN Invalid
    ELSE IF msg.type = "list" THEN Effect(partner, <<Wr(id, PeersMsg, "relay")>>, <<>>, FALSE)
    ELSE IF to \notin peers THEN
        IF useRedis
        THEN Effect(partner, <<>>, <<[to |-> to, from |-> id, payload |-> payload]>>, FALSE)
        ELSE Nothing
    ELSE
    LET pFrom == OrNull(MapGet(partner, id))
        pTo == OrNull(MapGet(partner, to))
        kind == payload.type
    IN
    IF ~KindRecognized(kind) THEN Nothing
    ELSE IF SdpTooBig(payload) \/ CandidateTooBig(payload) THEN Nothing
    ELSE IF kind = "offer" /\ OfferBusy(pFrom, pTo, id, to)
        THEN Effect(partner, <<BusyReply(id, to)>>, <<>>, TRUE)
    ELSE IF kind = "answer" /\ AnswerConflict(pFrom, pTo, id, to)
        THEN Effect(partner, <<>>, <<>>, TRUE)
    ELSE IF kind = "candidate" /\ ~CandidateAllowed(pFrom, pTo, id, to)
        THEN Effect(partner, <<>>, <<>>, TRUE)
    ELSE
    LET m == CASE kind = "offer" -> OnOffer(partner, id, to)
               [] kind = "answer" -> OnAnswer(partner, id, to)
               [] kind = "bye" -> OnBye(partner, id, to, pFrom, pTo)
               [] OTHER -> partner
    IN  [Effect(m, <<Forward(id, to, payload)>>, <<>>, TRUE) EXCEPT !.counted.signals = kind]

\* ------------------------------------------------------ the token bucket
Refill(tokens, elapsed) == Min(WS_MSG_BURST, tokens + elapsed * WS_MSG_RATE)

\* a limiter that rejects only below zero tokens
ExhaustedBelowZero(tokens) == tokens < 0

\* b.tokens < 1
Exhausted(tokens) == tokens < 1

\* ws.close(code): starts the closing handshake of an open socket
WsClose(cc, id, code) == IF cc[id] = Null THEN [cc EXCEPT ![id] = code] ELSE cc

\* ---------------------------------------------------------------- actions
NoClose == [id |-> Null, p |-> Null, back |-> Null]

\* no 'message' handler ran last
NoFrame == [id |-> Null, data |-> BadJson]

Init ==
    /\ nextId = 1
    /\ peers = {}
    /\ partner = << >>
    /\ ipConnCount = << >>
    /\ connIp = << >>
    /\ bucket = << >>
    /\ signalTimeout = << >>
    /\ closeCode = << >>
    /\ isAlive = << >>
    /\ sent = << >>
    /\ outbox = << >>
    /\ run = << >>
    /\ signalled = {}
    /\ unacked = << >>
    /\ sweeps = << >>
    /\ lastFrame = NoFrame
    /\ phase = "running"
    /\ staticHits = 0
    /\ configHits = 0
    /\ httpStatus = NoResponse
    /\ uuid = << >>
    /\ written = << >>
    /\ published = << >>
    /\ counted = NoCount
    /\ upgradeStatus = Null
    /\ welcomed = {}
    /\ closed = {}
    /\ passed = {}
    /\ lastClose = NoClose
    /\ WS_MSG_RATE \in {0, 1}
    /\ useRedis \in BOOLEAN

\* what a handler that is no upgrade leaves of the last upgrade
NoUpgrade == upgradeStatus' = Null

\* a rejection that still counts the request against the first address
RejectCounted(status) ==
    /\ upgradeStatus' = status
    /\ written' = << >>
    /\ ipConnCount' = MapSet(ipConnCount, "10.0.0.1", OrZero(MapGet(ipConnCount, "10.0.0.1")) + 1)
    /\ UNCHANGED <<nextId, peers, partner, connIp, bucket,
                   signalTimeout, closeCode, isAlive, welcomed>>

\* an upgrade request answered with an HTTP error and a destroyed socket
Reject(status) ==
    /\ upgradeStatus' = status
    /\ written' = << >>
    /\ UNCHANGED <<nextId, peers, partner, ipConnCount, connIp, bucket,
                   signalTimeout, closeCode, isAlive, welcomed>>

\* wss.on('connection')
Connection(ip) ==
    LET id == nextId IN
    /\ nextId' = nextId + 1
    /\ peers' = PeersSet(peers, id)
    /\ partner' = MapSet(partner, id, Null)
    /\ written' = <<Wr(id, WelcomeMsg(id), "relay")>>
    /\ welcomed' = welcomed \cup {written'[i].to : i \in {j \in DOMAIN written' : written'[j].msg.type = "welcome"}}
    /\ bucket' = MapSet(bucket, id, WS_MSG_BURST)
    /\ signalTimeout' = MapSet(signalTimeout, id, "armed")
    /\ closeCode' = MapSet(closeCode, id, Null)
    /\ isAlive' = MapSet(isAlive, id, TRUE)
    /\ connIp' = MapSet(connIp, id, ip)

\* a quota that lets every request through
OverQuotaNever(c) == FALSE

\* c > MAX_IP_CONNS
OverQuota(c) == c > MAX_IP_CONNS

\* wss.handleUpgrade on a request without a valid WebSocket handshake:
\* the library answers 400 and never calls back
AbortHandshake ==
    /\ upgradeStatus' = HTTP_BAD_REQUEST
    /\ written' = << >>
    /\ UNCHANGED <<nextId, peers, partner, connIp, bucket,
                   signalTimeout, closeCode, isAlive, welcomed>>

\* httpServer.on('upgrade'); a request that passes is handed to
\* wss.handleUpgrade, which completes the handshake and emits 'connection'
\* before it returns.
Upgrade(req) ==
    /\ IF req.path # "ws" THEN Reject(HTTP_NOT_FOUND)
       ELSE IF req.origin # "allowed" THEN Reject(HTTP_FORBIDDEN)
       ELSE LET c == OrZero(MapGet(ipConnCount, req.ip)) + 1 IN
            IF OverQuota(c) THEN Reject(HTTP_TOO_MANY)
            ELSE /\ ipConnCount' = MapSet(ipConnCount, req.ip, c)
                 /\ IF req.key # "ok" THEN AbortHandshake
                    ELSE /\ nextId <= MaxConns
                         /\ upgradeStatus' = HTTP_SWITCHING
                         /\ Connection(req.ip)
    /\ published' = << >>
    /\ counted' = NoCount
    /\ lastClose' = NoClose
    /\ UNCHANGED <<closed, WS_MSG_RATE, useRedis,
                   phase, staticHits, configHits, httpStatus>>

\* the idle timer of a connection fires
IdleTimeout(id) ==
    /\ id \in peers
    /\ signalTimeout[id] = "armed"
    /\ signalTimeout' = [signalTimeout EXCEPT ![id] = "fired"]
    /\ closeCode' = WsClose(closeCode, id, CLOSE_IDLE)
    /\ written' = << >>
    /\ published' = << >>
    /\ counted' = NoCount
    /\ lastClose' = NoClose
    /\ NoUpgrade
    /\ UNCHANGED <<nextId, peers, partner, ipConnCount, connIp, bucket, welcomed,
                   isAlive, closed, WS_MSG_RATE, useRedis,
                   phase, staticHits, configHits, httpStatus>>

\* ws.on('message')
Message(id, data, elapsed) ==
    /\ id \in peers
    /\ LET limited == WS_MSG_RATE > 0
           tokens == IF limited THEN Refill(bucket[id], elapsed) ELSE bucket[id]
       IN
       IF limited /\ Exhausted(tokens)
       THEN /\ bucket' = [bucket EXCEPT ![id] = tokens]
            /\ closeCode' = WsClose(closeCode, id, CLOSE_RATE)
            /\ written' = << >>
            /\ published' = << >>
            /\ counted' = [errors |-> 1, signals |-> "none"]
            /\ UNCHANGED <<partner, signalTimeout>>
       ELSE LET e == IF data.json THEN Relay(id, data) ELSE Invalid IN
            /\ bucket' = [bucket EXCEPT ![id] = IF limited THEN tokens - 1 ELSE tokens]
            /\ partner' = e.partner
            /\ written' = e.written
            /\ published' = e.published
            /\ counted' = e.counted
            /\ signalTimeout' = IF e.cancel
                                THEN [signalTimeout EXCEPT ![id] = "cleared"]
                                ELSE signalTimeout
            /\ UNCHANGED closeCode
    /\ lastClose' = NoClose
    /\ NoUpgrade
    /\ UNCHANGED <<nextId, peers, ipConnCount, connIp, welcomed, closed,
                   isAlive, WS_MSG_RATE, useRedis,
                   phase, staticHits, configHits, httpStatus>>

\* the per-IP counter after one connection of that address went away
IpRelease(m, ip) ==
    LET c == (IF Truthy(MapGet(m, ip)) THEN m[ip] ELSE 1) - 1
    IN  IF c <= 0 THEN MapDelete(m, ip) ELSE MapSet(m, ip, c)

\* ws.on('close')
Close(id) ==
    /\ id \in peers
    /\ peers' = PeersDelete(peers, id)
    /\ partner' = OnClose(partner, id)
    /\ lastClose' = LET p == OrNull(MapGet(partner, id))
                    IN  [id |-> id, p |-> p, back |-> OrNull(MapGet(partner, p))]
    /\ closed' = closed \cup {id}
    /\ ipConnCount' = IpRelease(ipConnCount, connIp[id])
    /\ connIp' = MapDelete(connIp, id)
    /\ bucket' = MapDelete(bucket, id)
    /\ signalTimeout' = MapDelete(signalTimeout, id)
    /\ closeCode' = MapDelete(closeCode, id)
    /\ isAlive' = MapDelete(isAlive, id)
    /\ written' = << >>
    /\ published' = << >>
    /\ counted' = NoCount
    /\ NoUpgrade
    /\ UNCHANGED <<nextId, welcomed, WS_MSG_RATE, useRedis,
                   phase, staticHits, configHits, httpStatus>>

\* Upgrade requests: right or wrong path, allowed or refused origin, one
\* source address.
Requests ==
    { [path |-> pa, origin |-> o, ip |-> "10.0.0.1", key |-> "ok"] :
        pa \in {"ws", "other"}, o \in {"allowed", "refused"} }

\* Messages of the signals channel: one that JSON.parse rejects, one of
\* another type, one without a string `to`, one without payload, and signals
\* from a peer of another instance.
RemoteCode == MaxConns + 1

BusPayloads == { p \in Payloads : p.type = "offer" /\ p.sdp = SDP_MAX }

BusSignal(to, from, payload) ==
    [json |-> TRUE, type |-> "signal", to |-> to, from |-> from, payload |-> payload]

BusMessages ==
    { [BusSignal(1, RemoteCode, NoPayload) EXCEPT !.json = FALSE],
      [BusSignal(1, RemoteCode, CHOOSE p \in BusPayloads : p.type = "offer") EXCEPT !.type = "other"],
      BusSignal(NotString, RemoteCode, CHOOSE p \in BusPayloads : p.type = "offer"),
      BusSignal(1, RemoteCode, NoPayload) }
    \cup { BusSignal(t, RemoteCode, p) : t \in Codes, p \in BusPayloads }

\* redisSub.on('message')
Subscriber(message) ==
    /\ useRedis
    /\ LET deliver == /\ message.json
                      /\ message.type = "signal"
                      /\ message.to # NotString
                      /\ message.payload # NoPayload
                      /\ message.to \in peers
       IN  /\ written' = IF deliver
                         THEN <<Wr(message.to, SignalMsg(message.from, message.payload), "bus")>>
                         ELSE << >>
           /\ counted' = IF deliver
                         THEN [errors |-> 0, signals |-> message.payload.type]
                         ELSE NoCount
    /\ published' = << >>
    /\ lastClose' = NoClose
    /\ NoUpgrade
    /\ UNCHANGED <<nextId, peers, partner, ipConnCount, connIp, bucket, signalTimeout,
                   closeCode, isAlive, welcomed, closed, WS_MSG_RATE, useRedis,
                   phase, staticHits, configHits, httpStatus>>

\* a sweep that finds no socket dead
DeadNever(alive) == FALSE

\* a sweep that finds every socket dead
DeadAlways(alive) == TRUE

\* ws.isAlive === false
Dead(alive) == alive = FALSE

\* ws.on('pong', heartbeat); a destroyed socket delivers no pong
Pong(id) ==
    /\ id \in peers
    /\ closeCode[id] # TERMINATED
    /\ isAlive' = [isAlive EXCEPT ![id] = TRUE]
    /\ written' = << >>
    /\ published' = << >>
    /\ counted' = NoCount
    /\ lastClose' = NoClose
    /\ NoUpgrade
    /\ UNCHANGED <<nextId, peers, partner, ipConnCount, connIp, bucket, signalTimeout,
                   closeCode, welcomed, closed, WS_MSG_RATE, useRedis,
                   phase, staticHits, configHits, httpStatus>>

\* hbInterval: one sweep over wss.clients
Sweep ==
    /\ closeCode' = [c \in DOMAIN closeCode |->
                       IF Dead(isAlive[c]) THEN TERMINATED ELSE closeCode[c]]
    /\ isAlive' = [c \in DOMAIN isAlive |->
                       IF Dead(isAlive[c]) THEN isAlive[c] ELSE FALSE]
    /\ written' = << >>
    /\ published' = << >>
    /\ counted' = NoCount
    /\ lastClose' = NoClose
    /\ NoUpgrade
    /\ UNCHANGED <<nextId, peers, partner, ipConnCount, connIp, bucket, signalTimeout,
                   welcomed, closed, WS_MSG_RATE, useRedis,
                   phase, staticHits, configHits, httpStatus>>

\* shutdown(): stops the heartbeat and calls wss.close() and
\* httpServer.close().  wss.close() leaves the clients alone or terminates
\* each of them, as the installed ws library does.
Shutdown(lib) ==
    /\ phase = "running"
    /\ phase' = "stopping"
    /\ closeCode' = IF lib = "terminates"
                    THEN [c \in DOMAIN closeCode |-> TERMINATED]
                    ELSE closeCode
    /\ written' = << >>
    /\ published' = << >>
    /\ counted' = NoCount
    /\ lastClose' = NoClose
    /\ NoUpgrade
    /\ UNCHANGED <<nextId, peers, partner, ipConnCount, connIp, bucket, signalTimeout,
                   isAlive, welcomed, closed, WS_MSG_RATE, useRedis,
                   staticHits, configHits, httpStatus>>

\* process.exit(0), from httpServer.close's callback or the 5 s timer
Exit ==
    /\ phase = "stopping"
    /\ phase' = "exited"
    /\ UNCHANGED <<nextId, peers, partner, ipConnCount, connIp, upgradeStatus, bucket,
                   signalTimeout, closeCode, written, published, counted, welcomed,
                   closed, lastClose, isAlive, WS_MSG_RATE, useRedis,
                   staticHits, configHits, httpStatus>>

\* Seconds since the connection's previous frame; read only by the limiter.
Elapsed == IF WS_MSG_RATE > 0 THEN 0..MaxElapsed ELSE {0}

\* passed is a history variable: the pairs of connected peers between which
\* the relay has forwarded an offer or an answer.
NoCodeHistory == UNCHANGED <<passed, sent, outbox, run, signalled, unacked, sweeps, lastFrame>>

NoHistory == UNCHANGED <<passed, sent, outbox, run, signalled, unacked, sweeps, lastFrame, uuid>>

History ==
    /\ passed' = {pr \in passed : pr \subseteq peers'}
              \cup { {written'[i].msg.from, written'[i].to} :
                       i \in {j \in DOMAIN written' :
                                /\ written'[j].src = "client"
                                /\ written'[j].msg.payload.type \in {"offer", "answer"}} }
    /\ UNCHANGED <<sent, outbox, run, signalled, unacked, sweeps, lastFrame, uuid>>

\* The pairing machine: the limiter is configured off, no idle timer fires.
InitPairing == Init /\ WS_MSG_RATE = 0 /\ ~useRedis

Next ==
    \/ \E req \in Requests : Upgrade(req) /\ NoHistory
    \/ \E id \in Codes, data \in Frames, elapsed \in Elapsed :
            Message(id, data, elapsed) /\ NoHistory
    \/ \E id \in Codes : Close(id) /\ NoHistory

Spec == InitPairing /\ [][Next]_vars

\* The same machine with the history of accepted offers and answers.
InitHist == Init /\ WS_MSG_RATE = 0 /\ ~useRedis

NextHist ==
    \/ \E req \in Requests : Upgrade(req) /\ History
    \/ \E id \in Codes, data \in Frames, elapsed \in Elapsed :
            Message(id, data, elapsed) /\ History
    \/ \E id \in Codes : Close(id) /\ History

SpecHist == InitHist /\ [][NextHist]_vars

\* The life of a connection: limiter on, idle timer, relay-started closes.
\* Frames are a bad one, a list request and a candidate for the first code.
LifeFrames ==
    {BadJson}
    \cup { f \in Frames : f.type = "list" }
    \cup { f \in Frames : f.type = "none" /\ f.to = 1
                                            /\ f.payload.type = "candidate"
                                            /\ f.payload.candidate = CAND_MAX }

InitLife == Init /\ WS_MSG_RATE = 1 /\ ~useRedis

NextLife ==
    \/ \E req \in Requests : Upgrade(req) /\ NoHistory
    \/ \E id \in Codes : IdleTimeout(id) /\ NoHistory
    \/ \E id \in Codes, data \in LifeFrames, elapsed \in Elapsed :
            Message(id, data, elapsed) /\ NoHistory
    \/ \E id \in Codes : Close(id) /\ NoHistory

SpecLife == InitLife /\ [][NextLife]_vars

\* The relay with the bus and the logs of what each connection sent and was
\* written.  Frames are an offer and a candidate for the first code.
LogFrames ==
    { f \in Frames : /\ f.json /\ f.type = "none" /\ f.to = 1
                     /\ f.payload \in {[type |-> "offer", sdp |-> SDP_MAX, candidate |-> 0],
                                       [type |-> "candidate", sdp |-> 0, candidate |-> CAND_MAX]} }

\* a socket that puts new writes ahead of the ones it holds
SocketWriteAhead(q, ws) == ws \o q

\* ws.send: the socket takes the writes in the order send was called
SocketWrite(q, ws) == q \o ws

\* the entries of `written` for connection c
WrittenTo(c) ==
    LET F[i \in 0..Len(written')] ==
            IF i = 0 THEN << >>
            ELSE IF written'[i].to = c
                 THEN Append(F[i - 1], [msg |-> written'[i].msg, src |-> written'[i].src])
                 ELSE F[i - 1]
    IN  F[Len(written')]

\* the number of frames logged so far
RECURSIVE SentTotal(_)
SentTotal(cs) ==
    IF cs = {} THEN 0
    ELSE LET c == CHOOSE x \in cs : TRUE IN Len(sent[c]) + SentTotal(cs \ {c})

\* id sent `data` (RemoteCode stands for the bus), or nothing arrived (id = Null)
Log(id, data) ==
    /\ outbox' = [c \in peers' |->
                    SocketWrite(IF c \in peers THEN outbox[c] ELSE << >>, WrittenTo(c))]
    /\ sent' = [c \in DOMAIN sent \cup peers' \cup ({id} \ {Null}) |->
                    LET old == IF c \in DOMAIN sent THEN sent[c] ELSE << >>
                    IN  IF c = id THEN Append(old, data) ELSE old]
    /\ UNCHANGED <<passed, run, signalled, unacked, sweeps, lastFrame, uuid>>

InitLog == Init /\ WS_MSG_RATE = 0 /\ useRedis

NextLog ==
    \/ \E req \in Requests :
            /\ req.path = "ws" /\ req.origin = "allowed"
            /\ Upgrade(req) /\ Log(Null, BadJson)
    \/ \E id \in Codes, data \in LogFrames :
            /\ id \in peers
            /\ SentTotal(DOMAIN sent) < MaxSent
            /\ Message(id, data, 0) /\ Log(id, data)
    \/ \E message \in BusMessages :
            /\ SentTotal(DOMAIN sent) < MaxSent
            /\ Subscriber(message) /\ Log(RemoteCode, message)
    \/ \E id \in Codes : Close(id) /\ Log(Null, BadJson)

SpecLog == InitLog /\ [][NextLog]_vars

\* The limiter under a burst: limiter on or configured with rate 0, no idle
\* timer fires, and the count of frames a connection has sent back-to-back
\* since it connected.
BurstFrames ==
    {BadJson}
    \cup { f \in Frames : f.type = "none" /\ f.to = 1
                                            /\ f.payload.type = "candidate"
                                            /\ f.payload.candidate = CAND_MAX }

\* run[c] counts c's frames while all of them came with no time elapsing,
\* up to two past the bucket's capacity; Undefined once time has elapsed.
Burst(id, elapsed) ==
    /\ run' = [c \in peers' |->
                 IF c \notin peers THEN 0
                 ELSE IF c # id THEN run[c]
                 ELSE IF run[c] = Undefined \/ elapsed > 0 THEN Undefined
                 ELSE Min(run[c] + 1, WS_MSG_BURST + 2)]
    /\ UNCHANGED <<passed, sent, outbox, signalled, unacked, sweeps, lastFrame, uuid>>

InitBurst == Init /\ ~useRedis

NextBurst ==
    \/ \E req \in Requests : Upgrade(req) /\ Burst(Null, 0)
    \/ \E id \in Codes, data \in BurstFrames, elapsed \in Elapsed :
            Message(id, data, elapsed) /\ Burst(id, elapsed)
    \/ \E id \in Codes : Close(id) /\ Burst(Null, 0)

SpecBurst == InitBurst /\ [][NextBurst]_vars

\* The idle timer: limiter off, and the connections that have sent a valid
\* offer, answer or candidate.  Frames are a bad one, a list request, and a
\* candidate, a bye and a busy for the first code.
IdleFrames ==
    {BadJson}
    \cup { f \in Frames : f.type = "list" }
    \cup { f \in Frames : /\ f.type = "none" /\ f.to = 1
                           /\ f.payload.type \in {"candidate", "bye", "busy"}
                           /\ f.payload.candidate \in {0, CAND_MAX} }

\* a valid envelope with an offer, answer or candidate within the size limits
ValidSignal(data) ==
    /\ data.json
    /\ data.to # NotString
    /\ data.payload # NoPayload
    /\ data.type # "list"
    /\ data.payload.type \in {"offer", "answer", "candidate"}
    /\ data.payload.sdp <= SDP_MAX
    /\ data.payload.candidate <= CAND_MAX

Signalled(id, data) ==
    /\ signalled' = (signalled \cap peers')
                     \cup (IF id # Null /\ ValidSignal(data) THEN {id} ELSE {})
    /\ UNCHANGED <<passed, sent, outbox, run, unacked, sweeps, lastFrame, uuid>>

InitIdle == Init /\ WS_MSG_RATE = 0 /\ ~useRedis

NextIdle ==
    \/ \E req \in Requests : Upgrade(req) /\ Signalled(Null, BadJson)
    \/ \E id \in Codes : IdleTimeout(id) /\ Signalled(Null, BadJson)
    \/ \E id \in Codes, data \in IdleFrames :
            Message(id, data, 0) /\ Signalled(id, data)
    \/ \E id \in Codes : Close(id) /\ Signalled(Null, BadJson)

SpecIdle == InitIdle /\ [][NextIdle]_vars

\* The heartbeat: sweeps and pongs, with the count of sweeps over each
\* connection and of pings sent to it since its last pong or its creation.
Beat(kind, id) ==
    /\ sweeps' = [c \in peers' |->
                    IF c \notin peers \/ (kind = "pong" /\ c = id) THEN 0
                    ELSE IF kind = "sweep" THEN sweeps[c] + 1
                    ELSE sweeps[c]]
    /\ unacked' = [c \in peers' |->
                    IF c \notin peers \/ (kind = "pong" /\ c = id) THEN 0
                    ELSE IF kind = "sweep" /\ ~Dead(isAlive[c]) /\ closeCode[c] = Null
                         THEN unacked[c] + 1
                    ELSE unacked[c]]
    /\ UNCHANGED <<passed, sent, outbox, run, signalled, lastFrame, uuid>>

InitBeat == Init /\ WS_MSG_RATE = 0 /\ ~useRedis

NextBeat ==
    \/ \E req \in Requests : Upgrade(req) /\ Beat("upgrade", Null)
    \/ \E id \in Codes : Pong(id) /\ Beat("pong", id)
    \/ /\ \A c \in peers : sweeps[c] < MaxSweeps
       /\ Sweep /\ Beat("sweep", Null)
    \/ \E id \in Codes : Close(id) /\ Beat("close", Null)

SpecBeat == InitBeat /\ [][NextBeat]_vars

\* The pairing machine with the record of the frame handled last.
Framed(id, data) ==
    /\ lastFrame' = [id |-> id, data |-> data]
    /\ UNCHANGED <<passed, sent, outbox, run, signalled, unacked, sweeps, uuid>>

InitFrame == Init /\ WS_MSG_RATE = 0 /\ ~useRedis

NextFrame ==
    \/ \E req \in Requests : Upgrade(req) /\ Framed(Null, BadJson)
    \/ \E id \in Codes, data \in Frames :
            Message(id, data, 0) /\ Framed(id, data)
    \/ \E id \in Codes : Close(id) /\ Framed(Null, BadJson)

SpecFrame == InitFrame /\ [][NextFrame]_vars

\* The relay with the bus: every frame, and the messages of the signals
\* channel.
InitBus == Init /\ WS_MSG_RATE = 0 /\ useRedis

NextBus ==
    \/ \E req \in Requests : Upgrade(req) /\ NoHistory
    \/ \E id \in Codes, data \in Frames :
            Message(id, data, 0) /\ NoHistory
    \/ \E message \in BusMessages : Subscriber(message) /\ NoHistory
    \/ \E id \in Codes : Close(id) /\ NoHistory

SpecBus == InitBus /\ [][NextBus]_vars

\* Shutdown: connections come and go, the idle timer fires, then the
\* termination signal arrives and the process exits.
InitStop == Init /\ WS_MSG_RATE = 0 /\ ~useRedis

NextStop ==
    \/ \E req \in Requests : phase = "running" /\ Upgrade(req) /\ NoHistory
    \/ \E id \in Codes : phase # "exited" /\ IdleTimeout(id) /\ NoHistory
    \/ \E id \in Codes : phase # "exited" /\ Close(id) /\ NoHistory
    \/ \E lib \in {"keeps", "terminates"} : Shutdown(lib) /\ NoHistory
    \/ Exit /\ NoHistory

SpecStop == InitStop /\ [][NextStop]_vars

\* The gate: upgrade requests from two addresses, with and without a valid
\* handshake, and offers to the first connection.
GateRequests ==
    { [path |-> pa, origin |-> o, ip |-> ip, key |-> k] :
        pa \in {"ws", "other"}, o \in {"allowed", "refused"},
        ip \in {"10.0.0.1", "10.0.0.2"}, k \in {"ok", "missing"} }

GateFrames ==
    { f \in Frames : /\ f.json /\ f.type = "none" /\ f.to = 1
                     /\ f.payload = [type |-> "offer", sdp |-> SDP_MAX, candidate |-> 0] }

InitGate == Init /\ WS_MSG_RATE = 0 /\ ~useRedis

NextGate ==
    \/ \E req \in GateRequests : Upgrade(req) /\ NoHistory
    \/ \E id \in Codes, data \in GateFrames :
            Message(id, data, 0) /\ NoHistory
    \/ \E id \in Codes : Close(id) /\ NoHistory

SpecGate == InitGate /\ [][NextGate]_vars

\* One GET through the express stack in the order the middleware is mounted:
\* staticLimiter and express.static at the root, then the /healthz route, then
\* configLimiter and the /config route.  A limiter counts the request and
\* answers 429 once its count exceeds its max.
HttpGet(url) ==
    /\ phase = "running"
    /\ staticHits < MaxHits
    /\ url = "/config" => configHits < MaxHits
    /\ staticHits' = staticHits + 1
    /\ IF staticHits' > HTTP_STATIC_MAX
         THEN /\ httpStatus' = [url |-> url, status |-> HTTP_TOO_MANY]
              /\ UNCHANGED configHits
         ELSE IF url = "/config"
         THEN /\ configHits' = configHits + 1
              /\ httpStatus' = [url |-> url, status |->
                                  IF configHits' > HTTP_CONFIG_MAX THEN HTTP_TOO_MANY ELSE HTTP_OK]
         ELSE /\ httpStatus' = [url |-> url, status |-> HTTP_OK]
              /\ UNCHANGED configHits
    /\ written' = << >> /\ published' = << >> /\ counted' = NoCount
    /\ lastClose' = NoClose /\ NoUpgrade
    /\ UNCHANGED <<nextId, peers, partner, ipConnCount, connIp, bucket,
                   signalTimeout, closeCode, isAlive, welcomed, closed,
                   WS_MSG_RATE, useRedis, phase>>

\* windowMs has elapsed for one limiter: its count starts again
WindowReset(limiter) ==
    /\ IF limiter = "static"
         THEN staticHits > 0 /\ staticHits' = 0 /\ UNCHANGED configHits
         ELSE configHits > 0 /\ configHits' = 0 /\ UNCHANGED staticHits
    /\ written' = << >> /\ published' = << >> /\ counted' = NoCount
    /\ lastClose' = NoClose /\ NoUpgrade
    /\ UNCHANGED <<nextId, peers, partner, ipConnCount, connIp, bucket,
                   signalTimeout, closeCode, isAlive, welcomed, closed,
                   WS_MSG_RATE, useRedis, phase, httpStatus>>

\* The HTTP side: one client fetching a static file, /healthz and /config
\* while WebSocket connections come and go on the same server.
Urls == {"/index.html", "/healthz", "/config"}

InitHttp == Init /\ WS_MSG_RATE = 0 /\ ~useRedis

NextHttp ==
    \/ \E url \in Urls : HttpGet(url) /\ NoHistory
    \/ \E limiter \in {"static", "config"} : WindowReset(limiter) /\ NoHistory
    \/ \E req \in Requests : Upgrade(req) /\ NoHistory
    \/ \E id \in Codes : Close(id) /\ NoHistory

SpecHttp == InitHttp /\ [][NextHttp]_vars

\* Scenario S1: the first two connections are A and B.  A sends an offer and
\* two candidates to B; B, once it was written the offer, sends an answer and
\* two candidates to A; once the answer is through, either side may send one
\* bye.  A third client may connect and leave, and upgrades may be refused.
HappyA == 1
HappyB == 2

HappyFrame(to, kind) ==
    [json |-> TRUE, to |-> to, type |-> "none",
     payload |-> CASE kind \in {"offer", "answer"} -> [type |-> kind, sdp |-> SDP_MAX, candidate |-> 0]
                   [] kind = "candidate" -> [type |-> "candidate", sdp |-> 0, candidate |-> CAND_MAX]
                   [] OTHER -> [type |-> kind, sdp |-> 0, candidate |-> 0]]

HappyScript(c) ==
    IF c = HappyA
    THEN <<HappyFrame(HappyB, "offer"), HappyFrame(HappyB, "candidate"), HappyFrame(HappyB, "candidate")>>
    ELSE <<HappyFrame(HappyA, "answer"), HappyFrame(HappyA, "candidate"), HappyFrame(HappyA, "candidate")>>

Other(c) == IF c = HappyA THEN HappyB ELSE HappyA

\* the frames of c's log that are not a bye
Scripted(c) == SelectSeq(sent[c], LAMBDA f : f.payload.type # "bye")

SaidBye(c) == c \in DOMAIN sent /\ \E i \in DOMAIN sent[c] : sent[c][i].payload.type = "bye"

\* B has been written A's offer
OfferSeen ==
    /\ HappyB \in DOMAIN outbox
    /\ \E i \in DOMAIN outbox[HappyB] : outbox[HappyB][i].msg.payload.type = "offer"

\* the frame client c sends next
HappyNext(c, data) ==
    /\ {HappyA, HappyB} \subseteq peers
    /\ \/ /\ ~SaidBye(HappyA) /\ ~SaidBye(HappyB)
          /\ Len(Scripted(c)) < Len(HappyScript(c))
          /\ data = HappyScript(c)[Len(Scripted(c)) + 1]
          /\ c = HappyB => OfferSeen
       \/ /\ ~SaidBye(c)
          /\ Len(Scripted(HappyB)) >= 1
          /\ data = HappyFrame(Other(c), "bye")

InitHappy == Init /\ WS_MSG_RATE = 0 /\ ~useRedis

NextHappy ==
    \/ \E req \in Requests : Upgrade(req) /\ Log(Null, BadJson)
    \/ \E c \in {HappyA, HappyB}, data \in Frames :
            /\ HappyNext(c, data)
            /\ Message(c, data, 0) /\ Log(c, data)
    \/ \E id \in Codes \ {HappyA, HappyB} : Close(id) /\ Log(Null, BadJson)

SpecHappy == InitHappy /\ [][NextHappy]_vars

\* The limiter under frames that JSON.parse rejects: every frame any
\* connection sends is malformed.
InitMalformed == Init /\ WS_MSG_RATE = 1 /\ ~useRedis

NextMalformed ==
    \/ \E req \in Requests : Upgrade(req) /\ NoHistory
    \/ \E id \in Codes, elapsed \in Elapsed :
            Message(id, BadJson, elapsed) /\ NoHistory
    \/ \E id \in Codes : Close(id) /\ NoHistory

SpecMalformed == InitMalformed /\ [][NextMalformed]_vars

\* Simultaneous offers: A and B each send an offer to the other before
\* either has answered; a side that was written the other's offer then sends
\* an answer and a candidate.  A third client may connect and leave.
GlareScript(c) ==
    <<HappyFrame(Other(c), "offer"), HappyFrame(Other(c), "answer"), HappyFrame(Other(c), "candidate")>>

\* c has been written an offer
OfferWrittenTo(c) ==
    /\ c \in DOMAIN outbox
    /\ \E i \in DOMAIN outbox[c] : outbox[c][i].msg.payload.type = "offer"

Answered(c) == c \in DOMAIN sent /\ \E i \in DOMAIN sent[c] : sent[c][i].payload.type = "answer"

GlareNext(c, data) ==
    /\ {HappyA, HappyB} \subseteq peers
    /\ Len(sent[c]) < Len(GlareScript(c))
    /\ data = GlareScript(c)[Len(sent[c]) + 1]
    /\ data.payload.type = "offer" => ~Answered(Other(c))
    /\ data.payload.type = "answer" => OfferWrittenTo(c)

InitGlare == Init /\ WS_MSG_RATE = 0 /\ ~useRedis

NextGlare ==
    \/ \E req \in Requests : Upgrade(req) /\ Log(Null, BadJson)
    \/ \E c \in {HappyA, HappyB}, data \in Frames :
            /\ GlareNext(c, data)
            /\ Message(c, data, 0) /\ Log(c, data)
    \/ \E id \in Codes \ {HappyA, HappyB} : Close(id) /\ Log(Null, BadJson)

SpecGlare == InitGlare /\ [][NextGlare]_vars

\* The codes as strings.  uuidv4() returns lower-case hexadecimal digits in
\* groups joined by hyphens, the version digit 4 heading one group; the
\* groups are cut down to two, one and one digits here.  The first digit
\* tells the connections apart, the others are drawn.
HexDigits == <<"0", "1", "2", "3", "4", "5", "6", "7", "8", "9", "a", "b", "c", "d", "e", "f">>

Drawn == {"0", "9", "a", "f"}

uuidv4(n, d) == <<HexDigits[n + 1], d, "-", "4", "-", d>>

\* String.prototype.toUpperCase on one character
ToUpperCase(ch) ==
    CASE ch = "a" -> "A" [] ch = "b" -> "B" [] ch = "c" -> "C"
      [] ch = "d" -> "D" [] ch = "e" -> "E" [] ch = "f" -> "F"
      [] OTHER -> ch

\* a character the class [^A-Z0-9] does not match
Kept(ch) ==
    ch \in {"A", "B", "C", "D", "E", "F", "G", "H", "I", "J", "K", "L", "M",
            "N", "O", "P", "Q", "R", "S", "T", "U", "V", "W", "X", "Y", "Z",
            "0", "1", "2", "3", "4", "5", "6", "7", "8", "9"}

\* normalizeCode: upper-case, then drop everything but A-Z and 0-9
normalizeCode(input) ==
    IF input = << >> THEN << >>
    ELSE SelectSeq([i \in DOMAIN input |-> ToUpperCase(input[i])], Kept)

formatCode(input) == normalizeCode(input)

prettyCode(input) ==
    LET s == normalizeCode(input)
    IN  IF Len(s) <= 3 THEN s ELSE SubSeq(s, 1, 3) \o <<"-">> \o SubSeq(s, 4, Len(s))

\* the welcome handler of the client: the code it stores
SelfId(id) == formatCode(id)

\* btnConnect.onclick: the `to` another client sends after the displayed code
\* was typed or pasted into its input
RemoteId(shown) == formatCode(shown)

\* peers.get(to)
PeersGet(to) == { c \in peers : uuid[c] = to }

\* the `to` of the frames a client sends to reach connection c, as the relay
\* resolves it: c's number on a hit, a code nobody holds on a miss
Dialled(c) ==
    LET dest == PeersGet(RemoteId(prettyCode(SelfId(uuid[c]))))
    IN  IF dest = {} THEN RemoteCode ELSE CHOOSE x \in dest : TRUE

\* history: what uuidv4() returned for the connection this step registered
Minted(d) ==
    /\ uuid' = [c \in peers' |-> IF c \in DOMAIN uuid THEN uuid[c] ELSE uuidv4(c, d)]
    /\ NoCodeHistory

InitCode == Init /\ WS_MSG_RATE = 0 /\ ~useRedis

NextCode ==
    \/ \E req \in Requests, d \in Drawn : Upgrade(req) /\ Minted(d)
    \/ \E id \in Codes, c \in peers, k \in {"offer", "bye"} :
            Message(id, HappyFrame(Dialled(c), k), 0) /\ Minted("0")
    \/ \E id \in Codes : Close(id) /\ Minted("0")

SpecCode == InitCode /\ [][NextCode]_vars

\* ================================================================ claims
Mutual(a, b) ==
    /\ a \in DOMAIN partner /\ b \in DOMAIN partner
    /\ partner[a] = b /\ partner[b] = a

\* a relayed envelope of the given kind, taken from a client's frame
IsForward(w, kind) == w.src = "client" /\ w.msg.type = "signal" /\ w.msg.payload.type = kind

\* a valid offer frame addressed to `to`
OfferFrame(to) ==
    [json |-> TRUE, to |-> to, payload |-> [type |-> "offer", sdp |-> SDP_MAX, candidate |-> 0], type |-> "none"]

\* C1 (I2, self-freedom): no peer's pairing entry equals its own code.
SelfFreedom == \A x \in DOMAIN partner : partner[x] # x

\* C2: every relayed envelope (forwarded signal or synthetic busy) written to
\* the connection of peer P has a `from` different from P.
FromIsNotRecipient ==
    \A i \in DOMAIN written :
        written[i].msg.type = "signal" => written[i].msg.from # written[i].to

\* C3: no envelope whose payload comes from a client's frame has kind busy;
\* busy envelopes are only the ones the relay makes itself.
ClientBusyNeverRelayed ==
    \A i \in DOMAIN written : ~IsForward(written[i], "busy")

\* C4: while a and b are mutually paired, no step forwards a candidate from a
\* third peer c to a or to b.
ThirdPartyCandidateBlocked ==
    [][ \A a \in Codes, b \in Codes, c \in Codes :
            (a # b /\ c # a /\ c # b /\ Mutual(a, b))
            => \A i \in DOMAIN written' :
                   ~(/\ IsForward(written'[i], "candidate")
                     /\ written'[i].msg.from = c
                     /\ written'[i].to \in {a, b}) ]_vars

AnswerOnlyAfterDialing ==
    [][ \A i \in DOMAIN written' :
            IsForward(written'[i], "answer")
            => LET a == written'[i].msg.from
                   b == written'[i].to
               IN  partner[a] = b \/ partner[b] = a ]_vars

\* C7 (busy rejection): when id sends an offer to a connected `to` while id
\* has a counterpart other than `to`, or `to` has a counterpart other than
\* id, the handler writes exactly one envelope, {from: to, busy}, to id, and
\* changes no pairing entry.
BusyRejection ==
    [][ \A id \in Codes, to \in Codes :
            (/\ id \in peers /\ to \in peers
             /\ \/ partner[id] # Null /\ partner[id] # to
                \/ partner[to] # Null /\ partner[to] # id
             /\ Message(id, OfferFrame(to), 0))
            => /\ written' = << [to |-> id,
                                 msg |-> [type |-> "signal", id |-> Null, from |-> to,
                                          payload |-> [type |-> "busy", sdp |-> 0, candidate |-> 0]],
                                 src |-> "relay"] >>
               /\ partner' = partner ]_vars

\* C7 witness: a third peer that offered to a member of a mutual pairing has
\* been written the busy envelope.
BusyReplied ==
    \E i \in DOMAIN written :
        /\ written[i].src = "relay"
        /\ written[i].msg.payload.type = "busy"
        /\ written[i].to # written[i].msg.from
        /\ \E b \in Codes : b # written[i].to /\ Mutual(written[i].msg.from, b)

\* C8 (I3, cleanup): when connection a closes, a's pairing entry is removed,
\* and a counterpart that had a as its own counterpart is unpaired.
CloseCleansPairing ==
    [][ \A a \in Codes :
            (a \in peers /\ a \notin peers')
            => /\ a \notin DOMAIN partner'
               /\ \A b \in DOMAIN partner \ {a} :
                      (partner[a] = b /\ partner[b] = a)
                      => (b \in DOMAIN partner' /\ partner'[b] = Null) ]_vars

\* C8 witness: a member of a mutual pairing has closed and the survivor is Free.
MutualPairClosed ==
    /\ lastClose.id # Null
    /\ lastClose.p # Null
    /\ lastClose.p # lastClose.id
    /\ lastClose.back = lastClose.id
    /\ partner[lastClose.p] = Null

\* C10: a connection is in the peer registry iff it has been sent its welcome
\* and its 'close' has not yet happened.
RegisteredIffWelcomedAndOpen ==
    \A c \in Codes : c \in peers <=> (c \in welcomed /\ c \notin closed)

\* C10 witness: one connection has closed and left the registry while another,
\* whose close the relay has started, is still registered.
ClosedAndClosing ==
    /\ closed # {}
    /\ \E c \in peers : closeCode[c] # Null

\* the payloads of the frames of log `fs` addressed to b
PayloadsTo(fs, b) ==
    LET F[i \in 0..Len(fs)] ==
            IF i = 0 THEN << >>
            ELSE IF fs[i].json /\ fs[i].to = b THEN Append(F[i - 1], fs[i].payload)
                 ELSE F[i - 1]
    IN  F[Len(fs)]

\* the payloads of the envelopes of write log `q` relayed from local sender a
PayloadsFrom(q, a) ==
    LET F[i \in 0..Len(q)] ==
            IF i = 0 THEN << >>
            ELSE IF q[i].src = "client" /\ q[i].msg.from = a
                 THEN Append(F[i - 1], q[i].msg.payload)
                 ELSE F[i - 1]
    IN  F[Len(q)]

RECURSIVE IsSubSeq(_, _)
IsSubSeq(u, v) ==
    IF u = << >> THEN TRUE
    ELSE IF v = << >> THEN FALSE
    ELSE IF Head(u) = Head(v) THEN IsSubSeq(Tail(u), Tail(v))
    ELSE IsSubSeq(u, Tail(v))

\* C11: the first thing written to a connection is the welcome carrying its
\* own code, and nothing written to it afterwards, relayed from a local
\* sender or delivered by the bus subscriber, is a welcome.
WelcomeOnceAndFirst ==
    \A c \in peers :
        /\ Len(outbox[c]) >= 1
        /\ outbox[c][1].msg.type = "welcome"
        /\ outbox[c][1].msg.id = c
        /\ \A i \in 2..Len(outbox[c]) : outbox[c][i].msg.type = "signal"

\* C11 witness: a connection was written its welcome, then an envelope from a
\* local sender and one from the bus subscriber.
WelcomeThenLocalAndBus ==
    \E c \in peers :
        /\ \E i \in 2..Len(outbox[c]) : outbox[c][i].src = "client"
        /\ \E i \in 2..Len(outbox[c]) : outbox[c][i].src = "bus"

\* C12 (per-sender ordering): the payloads written to b as relayed from a
\* appear in the order in which a sent them.
PerSenderOrder ==
    \A a \in DOMAIN sent, b \in peers :
        IsSubSeq(PayloadsFrom(outbox[b], a), PayloadsTo(sent[a], b))

\* C12 witness: b was written two different signals from a with an envelope
\* of another sender between them.
TwoForwardedInterleaved ==
    \E a \in peers, b \in peers, i \in 1..(MaxSent + 1), k \in 1..(MaxSent + 1) :
        /\ i + 1 < k /\ k <= Len(outbox[b])
        /\ outbox[b][i].src = "client" /\ outbox[b][i].msg.from = a
        /\ outbox[b][k].src = "client" /\ outbox[b][k].msg.from = a
        /\ outbox[b][i].msg.payload # outbox[b][k].msg.payload
        /\ outbox[b][i + 1].msg.type = "signal" /\ outbox[b][i + 1].msg.from # a

\* C13: with the bucket configured as burst WS_MSG_BURST and rate 0, the
\* frame after the first WS_MSG_BURST back-to-back frames of a connection
\* closes it with code 1008.  (An idle close means 60 s have gone by.)
RateZeroBurstCloses ==
    WS_MSG_RATE = 0 =>
        \A c \in peers :
            (run[c] = WS_MSG_BURST + 1 /\ closeCode[c] # CLOSE_IDLE)
            => closeCode[c] = CLOSE_RATE

\* C14 (burst boundary): with a positive refill rate and no time elapsing,
\* a connection is not closed by the limiter during its first WS_MSG_BURST
\* frames and is closed with code 1008 on the next one.
BurstBoundary ==
    WS_MSG_RATE > 0 =>
        \A c \in peers :
            (run[c] # Undefined /\ closeCode[c] # CLOSE_IDLE)
            => /\ run[c] <= WS_MSG_BURST => closeCode[c] = Null
               /\ run[c] = WS_MSG_BURST + 1 => closeCode[c] = CLOSE_RATE

\* C14 witness: a connection has sent one frame more than the capacity, all
\* back-to-back, and is being closed with 1008.
BurstOverflowed ==
    /\ WS_MSG_RATE > 0
    /\ \E c \in peers : /\ run[c] = WS_MSG_BURST + 1
                        /\ closeCode[c] = CLOSE_RATE
                        /\ bucket[c] = 0

\* C15: only a valid offer, answer or candidate keeps a connection from its
\* idle close: a connection whose idle timer was cancelled has sent one.
IdleCancelledOnlyBySignal ==
    \A c \in peers : signalTimeout[c] = "cleared" => c \in signalled

\* C16: once a connection has sent a valid offer, answer or candidate,
\* whatever destination it names, its idle timer is no longer pending.
SignalCancelsIdle ==
    \A c \in peers : c \in signalled => signalTimeout[c] # "armed"

\* C17 (heartbeat eviction): a connection over which two sweeps have passed
\* since its last pong or its creation has been terminated.
HeartbeatEvicts ==
    \A c \in peers : sweeps[c] >= 2 => closeCode[c] = TERMINATED

\* C17 witness: a connection over which two sweeps passed with no pong is
\* terminated while another one, alive and not yet swept again, is open.
SilentEvictedOtherOpen ==
    \E c \in peers, d \in peers :
        /\ closeCode[c] = TERMINATED /\ sweeps[c] = 2
        /\ closeCode[d] = Null /\ isAlive[d] /\ sweeps[d] = 0

\* C18 as stated: a connection is terminated only after two pings to it in a
\* row went unacknowledged.
TerminatedAfterTwoMissedAcks ==
    \A c \in peers : closeCode[c] = TERMINATED => unacked[c] >= 2

\* C18 amended: a connection is terminated only by the second sweep in a row
\* with no pong in between, that is after one missed ping; the first sweep
\* after a pong or after creation leaves it open.
TerminatedAtSecondSilentSweep ==
    \A c \in peers :
        /\ closeCode[c] = TERMINATED => (sweeps[c] >= 2 /\ unacked[c] = 1)
        /\ sweeps[c] <= 1 => closeCode[c] = Null

\* C18 witness: a connection has one unacknowledged ping and is open after
\* the sweep that sent it; another one was terminated after one missed ping.
OneMissOpenOtherTerminated ==
    \E c \in peers, d \in peers :
        /\ unacked[c] = 1 /\ sweeps[c] = 1 /\ closeCode[c] = Null
        /\ unacked[d] = 1 /\ closeCode[d] = TERMINATED

\* a frame that is bad JSON, lacks a string `to` or an object payload,
\* carries an oversized sdp or candidate, or has an unknown payload kind
InvalidFrame(data) ==
    \/ ~data.json
    \/ data.to = NotString
    \/ data.payload = NoPayload
    \/ /\ data.type # "list"
       /\ \/ data.payload.type \notin Kinds
          \/ data.payload.sdp > SDP_MAX
          \/ data.payload.candidate > CAND_MAX

\* C19: the handler of an invalid frame adds one to the error counter,
\* writes nothing and leaves the sender's connection open.
InvalidFrameCountedAndDropped ==
    (lastFrame.id # Null /\ InvalidFrame(lastFrame.data))
    => /\ counted.errors = 1
       /\ written = << >>
       /\ closeCode[lastFrame.id] = Null

\* C20 (unknown destination without the bus): the handler of an offer for a
\* code that is not in the peer registry writes nothing, changes no pairing
\* entry and adds nothing to the error counter or to ws_signals_total.
UnknownDestinationIsSilent ==
    [][ (/\ ~useRedis
         /\ lastFrame'.id # Null
         /\ lastFrame'.data.json
         /\ lastFrame'.data.type = "none"
         /\ lastFrame'.data.payload.type = "offer"
         /\ lastFrame'.data.to \notin peers)
        => /\ written' = << >>
           /\ partner' = partner
           /\ counted' = NoCount ]_vars

\* C20 witness: a paired peer has just sent an offer within the size limit
\* for a code that is not connected, and nothing was written or counted.
OfferToAbsentHandled ==
    /\ lastFrame.id \in peers
    /\ lastFrame.data.json /\ lastFrame.data.type = "none"
    /\ lastFrame.data.payload.type = "offer"
    /\ lastFrame.data.payload.sdp = SDP_MAX
    /\ lastFrame.data.to \in Codes \ peers
    /\ partner[lastFrame.id] # Null
    /\ written = << >>
    /\ counted = NoCount

\* C21: what the relay publishes on the bus is a signal of a kind the pairing
\* machine forwards (so no client-sent busy and no unknown kind) within the
\* size limits.
PublishedOnlyAfterGating ==
    \A i \in DOMAIN published :
        /\ published[i].payload.type \in {"offer", "answer", "candidate", "bye"}
        /\ published[i].payload.sdp <= SDP_MAX
        /\ published[i].payload.candidate <= CAND_MAX

\* C22: when the relay has published A's offer for a code B hosted elsewhere,
\* it has recorded A as dialing B.
PublishedOfferDials ==
    \A i \in DOMAIN published :
        published[i].payload.type = "offer"
        => partner[published[i].from] = published[i].to

\* C23: the handler that publishes A's offer for a code hosted elsewhere
\* publishes one message and adds one to ws_signals_total{kind="offer"}.
PublishedOfferCounted ==
    (published # << >> /\ published[1].payload.type = "offer")
    => (Len(published) = 1 /\ counted.signals = "offer")

\* C24: when the process has exited after a shutdown, the relay had closed
\* every connection that was still registered with code 1001.
ShutdownClosesGoingAway ==
    phase = "exited" => \A c \in peers : closeCode[c] = CLOSE_GOING_AWAY

\* C25 (per-IP quota): no per-IP counter exceeds MAX_IP_CONNS, the open
\* connections of an address are at most its counter, and an upgrade is
\* answered 429 only when an address stands at the maximum.
IpQuota ==
    /\ \A ip \in DOMAIN ipConnCount : ipConnCount[ip] <= MAX_IP_CONNS
    /\ \A c \in peers :
          /\ connIp[c] \in DOMAIN ipConnCount
          /\ Cardinality({d \in peers : connIp[d] = connIp[c]}) <= ipConnCount[connIp[c]]
    /\ upgradeStatus = HTTP_TOO_MANY
          => \E ip \in DOMAIN ipConnCount : ipConnCount[ip] = MAX_IP_CONNS

\* C25 witness: an address has MAX_IP_CONNS open connections and its next
\* upgrade was answered 429.
QuotaReachedAndRejected ==
    /\ upgradeStatus = HTTP_TOO_MANY
    /\ \E c \in peers : Cardinality({d \in peers : connIp[d] = connIp[c]}) = MAX_IP_CONNS

\* C26: an upgrade answered 404, 403 or 429 creates no connection and leaves
\* the peer registry, the pairing map and the per-IP counters as they were.
RejectedUpgradeChangesNothing ==
    [][ upgradeStatus' \in {HTTP_NOT_FOUND, HTTP_FORBIDDEN, HTTP_TOO_MANY}
        => /\ peers' = peers
           /\ partner' = partner
           /\ ipConnCount' = ipConnCount
           /\ nextId' = nextId
           /\ written' = << >> ]_vars

\* C26 witness: an upgrade was just refused while one peer is dialing another.
RejectedWhileDialing ==
    /\ upgradeStatus \in {HTTP_NOT_FOUND, HTTP_FORBIDDEN, HTTP_TOO_MANY}
    /\ \E a \in peers, b \in peers : a # b /\ partner[a] = b

\* C27: every GET /healthz is answered 200, whatever number of requests the
\* client has already made in the window.
HealthzAlwaysOk ==
    httpStatus.url = "/healthz" => httpStatus.status = HTTP_OK

\* C28: the static budget and the /config budget are separate: /config is
\* answered 429 only when the /config count exceeds its own max, and a static
\* file only when the static count exceeds its own, so exhausting one budget
\* never causes a 429 on the other.
SeparateBudgets ==
    /\ (httpStatus = [url |-> "/config", status |-> HTTP_TOO_MANY])
            => configHits > HTTP_CONFIG_MAX
    /\ (httpStatus = [url |-> "/index.html", status |-> HTTP_TOO_MANY])
            => staticHits > HTTP_STATIC_MAX

\* C29: the reply to a valid list request is exactly one message
\* {type: "peers", peers: []} to the requester, whichever peers are
\* registered.
ListReplyIsEmpty ==
    (/\ lastFrame.id # Null
     /\ lastFrame.data.json
     /\ lastFrame.data.type = "list"
     /\ lastFrame.data.to # NotString
     /\ lastFrame.data.payload # NoPayload)
    => /\ Len(written) = 1
       /\ written[1].to = lastFrame.id
       /\ written[1].msg.type = "peers"
       /\ written[1].msg.peers = {}
       /\ published = << >>

\* C29 witness: a list request was answered while two other peers were
\* registered.
ListAnsweredAmongPeers ==
    /\ lastFrame.id \in peers
    /\ lastFrame.data.json /\ lastFrame.data.type = "list"
    /\ Len(written) = 1 /\ written[1].msg.type = "peers"
    /\ Cardinality(peers \ {lastFrame.id}) >= 2

\* C30: a bye from A to B that directly follows the same bye from A to B
\* leaves the pairing map as the first one left it.
ByeTwiceIsByeOnce ==
    [][ (/\ lastFrame.id # Null
         /\ lastFrame.data.json
         /\ lastFrame.data.type = "none"
         /\ lastFrame.data.to \in Codes
         /\ lastFrame.data.payload.type = "bye"
         /\ lastFrame' = lastFrame)
        => partner' = partner ]_vars

\* C30 witness: A has just sent bye to another registered peer B, the bye was
\* forwarded and both are free: the state in which the bye is repeated.
ByeForwardedBothFree ==
    /\ lastFrame.id \in peers
    /\ lastFrame.data.json /\ lastFrame.data.type = "none"
    /\ lastFrame.data.payload.type = "bye"
    /\ lastFrame.data.to \in peers \ {lastFrame.id}
    /\ partner[lastFrame.id] = Null
    /\ partner[lastFrame.data.to] = Null
    /\ \E i \in DOMAIN written :
          written[i].to = lastFrame.data.to /\ written[i].msg.payload.type = "bye"

\* the payloads written to c in signals from d, in order
SignalsFrom(c, d) ==
    LET q == SelectSeq(outbox[c], LAMBDA w : w.msg.type = "signal" /\ w.msg.from = d)
    IN  [i \in DOMAIN q |-> q[i].msg.payload]

\* the payloads of the frames c sent, in order
PayloadsSent(c) == [i \in DOMAIN sent[c] |-> sent[c][i].payload]

\* C31 (scenario S1): B is written exactly what A sent, in A's order (the
\* offer before any candidate), and A exactly what B sent (the answer before
\* any candidate); once the answer is handled and until a bye the number of
\* mutual pairings is 1; after a bye from either side it is 0.
HappyPath ==
    {HappyA, HappyB} \subseteq peers
    => /\ SignalsFrom(HappyB, HappyA) = PayloadsSent(HappyA)
       /\ SignalsFrom(HappyA, HappyB) = PayloadsSent(HappyB)
       /\ \A c \in {HappyA, HappyB} : \A j \in DOMAIN SignalsFrom(c, Other(c)) :
             SignalsFrom(c, Other(c))[j].type = "candidate"
             => \E i \in 1..(j - 1) : SignalsFrom(c, Other(c))[i].type \in {"offer", "answer"}
       /\ (Len(Scripted(HappyB)) >= 1 /\ ~SaidBye(HappyA) /\ ~SaidBye(HappyB))
             => CalcPairs(partner) = 1
       /\ (SaidBye(HappyA) \/ SaidBye(HappyB)) => CalcPairs(partner) = 0

\* C31 witness: offer, answer and both candidates of each side went through
\* and one side has said bye.
HappyPathCompleted ==
    /\ {HappyA, HappyB} \subseteq peers
    /\ Len(SignalsFrom(HappyB, HappyA)) >= 3
    /\ Len(SignalsFrom(HappyA, HappyB)) >= 3
    /\ SaidBye(HappyA) \/ SaidBye(HappyB)
    /\ CalcPairs(partner) = 0

\* C32: a forward handed to a socket that is no longer open (the write
\* fails) is counted as an error and not in ws_signals_total, and nothing is
\* written to the originator.
FailedForwardCountedAsError ==
    \A i \in DOMAIN written :
        (/\ written[i].src = "client"
         /\ written[i].to # written[i].msg.from
         /\ written[i].to \in DOMAIN closeCode
         /\ closeCode[written[i].to] # Null)
        => /\ counted.errors = 1
           /\ counted.signals = "none"
           /\ \A j \in DOMAIN written : written[j].to # written[i].msg.from

\* C33: a frame that fails JSON decoding consumes no token, so a connection
\* that has sent only malformed frames keeps a full bucket and is never
\* closed with reason "rate".
MalformedConsumesNoToken ==
    \A c \in peers :
        /\ bucket[c] = WS_MSG_BURST
        /\ closeCode[c] # CLOSE_RATE

\* C34: when A offers B and B offers A before any answer, both offers are
\* forwarded and neither side is written a busy; once either side has
\* answered, A and B are mutually paired.
SimultaneousOffersLegal ==
    {HappyA, HappyB} \subseteq peers
    => /\ SignalsFrom(HappyB, HappyA) = PayloadsSent(HappyA)
       /\ SignalsFrom(HappyA, HappyB) = PayloadsSent(HappyB)
       /\ \A c \in {HappyA, HappyB} : \A i \in DOMAIN outbox[c] :
             outbox[c][i].msg.payload.type # "busy"
       /\ (Answered(HappyA) \/ Answered(HappyB)) => Mutual(HappyA, HappyB)

\* C34 witness: both sides were written the other's offer and one answer
\* has gone through.
GlareAnswered ==
    /\ {HappyA, HappyB} \subseteq peers
    /\ OfferWrittenTo(HappyA) /\ OfferWrittenTo(HappyB)
    /\ Answered(HappyA) \/ Answered(HappyB)
    /\ Mutual(HappyA, HappyB)

\* C35: every non-empty pairing entry of a connected peer names a peer that
\* is in the registry.
NoDanglingCounterpart ==
    \A a \in peers :
        Truthy(MapGet(partner, a)) => partner[a] \in peers

\* C36: a connected peer whose pairing entry is non-empty is Free after the
\* handler has run on its bye to its recorded counterpart.
ByeAlwaysReleases ==
    \A a \in peers :
        Truthy(MapGet(partner, a))
        => Relay(a, HappyFrame(partner[a], "bye")).partner[a] = Null

\* C37: the per-IP counter of every address equals the number of registered
\* connections from that address (no upgrade is in progress between two
\* handlers), and an address without connections has no counter.
IpAccountingExact ==
    /\ \A ip \in DOMAIN ipConnCount :
          ipConnCount[ip] = Cardinality({c \in peers : connIp[c] = ip})
    /\ \A c \in peers : connIp[c] \in DOMAIN ipConnCount

\* C38: no envelope is forwarded to another peer from a frame that arrived
\* on a connection the relay had already closed with 1000 "idle" or 1008
\* "rate".
NoRelayAfterRelayClose ==
    \A i \in DOMAIN written :
        (/\ written[i].src = "client"
         /\ written[i].to # written[i].msg.from
         /\ written[i].msg.from \in DOMAIN closeCode)
        => closeCode[written[i].msg.from] \notin {CLOSE_IDLE, CLOSE_RATE}

\* C39: for every welcomed connection c, the code a client stores from c's
\* welcome and shows, once another client has typed it and sends it as `to`,
\* resolves in the registry to c.
CodeRoundTrip ==
    \A c \in peers :
        PeersGet(RemoteId(prettyCode(SelfId(uuid[c])))) = {c}

====
